---- MODULE Spec2Model ----
(***************************************************************************)
(* Model of the smude checkpoint-migration utilities:                      *)
(*   scripts/extract_model_weights.py  main()                              *)
(*   smude/loader.py                   load_model_flexible()               *)
(*   scripts/smoke_loader_only.py      main()                              *)
(*   tests/test_loader_forward.py      test_forward_shape()                *)
(*                                                                         *)
(* A Python str is a sequence of one-character strings, so that            *)
(* startswith, slicing and split are computed and not assumed.  A Python   *)
(* dict is the sequence of its <<key, value>> items in insertion order,    *)
(* with pairwise distinct keys.                                            *)
(***************************************************************************)
EXTENDS Integers, Sequences, FiniteSets, TLC

VARIABLES
    \* ---- scripts/extract_model_weights.py: main() ----
    pc,           \* position in main()
    ckptOnDisk,   \* smude/model.ckpt exists
    sysModules,   \* sys.modules restricted to the three Lightning names
    legacyImport, \* what `from smude.model import load_model` met, once tried
    ckpt,         \* the object torch.load returned
    state_dict,   \* ckpt.get("state_dict", ckpt)
    tentative,    \* the once-shortened mapping of strategy 3b
    cleaned,      \* the cleaned mapping
    weightsFile,  \* content of smude/model_weights.pth
    configFile,   \* content of smude/model_config.pth
    log,          \* the steps main() has taken, in order
    error,        \* the exception main() ended with
    report,       \* what the verification step printed
    \* ---- smude/loader.py, smoke script and test ----
    entry,        \* which entry point runs
    lpc,          \* position in the entry point
    disk,         \* the paths that exist
    arg_weights,  \* the weights_path the caller passed
    arg_checkpoint, \* the checkpoint_path the caller passed
    weights_path, \* the local weights_path of load_model_flexible
    checkpoint_path, \* the local checkpoint_path of load_model_flexible
    model,        \* the keys the instantiated UNet expects
    source,       \* the file the parameters are taken from
    outcome,      \* how the entry point ended
    mismatch,     \* the mapping loaded had missing or unexpected keys
    warned        \* a key-mismatch warning was printed

extractVars == <<pc, ckptOnDisk, sysModules, legacyImport, ckpt, state_dict, tentative,
                 cleaned, weightsFile, configFile, log, error, report>>
loaderVars == <<entry, lpc, disk, arg_weights, arg_checkpoint, weights_path,
                checkpoint_path, model, source, outcome, mismatch, warned>>
vars == <<pc, ckptOnDisk, sysModules, legacyImport, ckpt, state_dict, tentative,
          cleaned, weightsFile, configFile, log, error, report,
          entry, lpc, disk, arg_weights, arg_checkpoint, weights_path,
          checkpoint_path, model, source, outcome, mismatch, warned>>

(***************************************************************************)
(* Bounds                                                                  *)
(***************************************************************************)
\* largest number of items of a state mapping read from a checkpoint
MaxEntries == 2

(***************************************************************************)
(* Strings                                                                 *)
(***************************************************************************)
\* the separator, and the prefix literal "net." of lines 86 and 96
Dot == "."
NetPrefix == <<"n", "e", "t", ".">>
\* the key "state_dict" of line 78
StateDictKey == <<"s", "t", "a", "t", "e", "_", "d", "i", "c", "t">>

\* str.startswith
StartsWith(k, prefix) ==
    /\ Len(k) >= Len(prefix)
    /\ SubSeq(k, 1, Len(prefix)) = prefix

\* k[len(prefix):]
SliceFrom(k, n) == SubSeq(k, n + 1, Len(k))

\* "." in k
HasDot(k) == \E i \in 1..Len(k) : k[i] = Dot

\* k.split(".", 1)[1]: what follows the first separator
AfterFirstDot(k) ==
    LET first == CHOOSE i \in 1..Len(k) :
                     /\ k[i] = Dot
                     /\ \A j \in 1..(i - 1) : k[j] # Dot
    IN SliceFrom(k, first)

(***************************************************************************)
(* dict                                                                    *)
(***************************************************************************)
EmptyDict == <<>>

Keys(d) == {d[i][1] : i \in 1..Len(d)}

\* d[k], for k in d
Lookup(d, k) == d[CHOOSE i \in 1..Len(d) : d[i][1] = k][2]

\* d.setdefault(k, v) in place of d[k] = v: the first value is kept
DictSetKeepsFirst(d, k, v) ==
    IF \E i \in 1..Len(d) : d[i][1] = k THEN d ELSE Append(d, <<k, v>>)

\* d[k] = v: a present key keeps its position and takes the new value
DictSet(d, k, v) ==
    IF k \in Keys(d)
    THEN [i \in 1..Len(d) |-> IF d[i][1] = k THEN <<k, v>> ELSE d[i]]
    ELSE Append(d, <<k, v>>)

\* d.get(k, default)
DictGet(d, k, default) == IF k \in Keys(d) THEN Lookup(d, k) ELSE default

\* `not d` for a dict
IsEmpty(d) == d = EmptyDict

(***************************************************************************)
(* scripts/extract_model_weights.py                                        *)
(***************************************************************************)
RECURSIVE StripItems(_, _, _)
StripItems(items, prefix, acc) ==
    IF items = <<>> THEN acc
    ELSE LET k == items[1][1]
             v == items[1][2]
         IN StripItems(Tail(items), prefix,
                       IF StartsWith(k, prefix)
                       THEN DictSet(acc, SliceFrom(k, Len(prefix)), v)
                       ELSE acc)

RECURSIVE StripOrKeepItems(_, _, _)
StripOrKeepItems(items, prefix, acc) ==
    IF items = <<>> THEN acc
    ELSE LET k == items[1][1]
             v == items[1][2]
         IN StripOrKeepItems(Tail(items), prefix,
                             DictSet(acc,
                                     IF StartsWith(k, prefix)
                                     THEN SliceFrom(k, Len(prefix)) ELSE k,
                                     v))

\* strip_prefix without its filter: keys without the prefix are kept as they are
strip_prefix_keeps_others(d, prefix) == StripOrKeepItems(d, prefix, EmptyDict)

RECURSIVE FilterItems(_, _, _)
FilterItems(items, prefix, acc) ==
    IF items = <<>> THEN acc
    ELSE FilterItems(Tail(items), prefix,
                     IF StartsWith(items[1][1], prefix)
                     THEN DictSet(acc, items[1][1], items[1][2])
                     ELSE acc)

\* strip_prefix without its slice: the keys with the prefix are kept whole
strip_prefix_keeps_prefix(d, prefix) == FilterItems(d, prefix, EmptyDict)

\* {k[len(prefix):]: v for k, v in d.items() if k.startswith(prefix)}
strip_prefix(d, prefix) == StripItems(d, prefix, EmptyDict)

RECURSIVE ShortenItems(_, _)
ShortenItems(items, acc) ==
    IF items = <<>> THEN acc
    ELSE LET k == items[1][1]
             v == items[1][2]
         IN ShortenItems(Tail(items),
                         IF HasDot(k)
                         THEN DictSet(acc, AfterFirstDot(k), v)
                         ELSE acc)

\* the loop of lines 91-94 that fills `tentative`
Tentative(d) == ShortenItems(d, EmptyDict)

\* strip_prefix(tentative, "net.") or tentative
Strategy3bResult(d) ==
    LET t == Tentative(d)
        s == strip_prefix(t, NetPrefix)
    IN IF IsEmpty(s) THEN t ELSE s

\* the names registered in sys.modules by the retry
pl_name == "pytorch_lightning"
utils_name == "pytorch_lightning.utilities"
parsing_name == "pytorch_lightning.utilities.parsing"
ModuleNames == {pl_name, utils_name, parsing_name}

\* the fixed architecture config of lines 116-121
num_classes == 4
num_layers == 5
features_start == 64
Config == [num_classes |-> num_classes, num_layers |-> num_layers,
           features_start |-> features_start, bilinear |-> TRUE]

NoError == [type |-> "none", msg |-> ""]
LegacyUnavailableError ==
    [type |-> "RuntimeError",
     msg |-> "Could not parse checkpoint state_dict keys and legacy loader is unavailable. Please install a temporary environment with old PyTorch Lightning to proceed."]
Propagated(what) == [type |-> what, msg |-> ""]

NoFile == [exists |-> FALSE, content |-> <<>>]
File(content) == [exists |-> TRUE, content |-> content]
NoValue == "unset"

\* ---- the inputs main() can meet ----
Tensors == {"T1", "T2"}
KeyPool ==
    { NetPrefix \o <<"a">>,                              \* net.a
      NetPrefix \o NetPrefix \o <<"a">>,                 \* net.net.a
      <<"a">>,                                           \* a
      <<"m", ".">> \o NetPrefix \o <<"a">>,              \* m.net.a
      <<"w", ".">> \o NetPrefix \o <<"a">>,              \* w.net.a
      <<"m", ".", "a">>,                                 \* m.a
      <<"m", ".">> \o NetPrefix \o NetPrefix \o <<"a">>, \* m.net.net.a
      <<"m", ".">> }                                     \* m.
Items == KeyPool \X Tensors
DistinctKeys(d) == \A i, j \in 1..Len(d) : d[i][1] = d[j][1] => i = j
StateMappings ==
    UNION {{d \in [1..n -> Items] : DistinctKeys(d)} : n \in 0..MaxEntries}
\* a checkpoint is a bare state mapping or a Lightning dict holding one
EpochKey == <<"e", "p", "o", "c", "h">>
Checkpoints ==
    StateMappings \cup
    {<< <<EpochKey, "meta">>, <<StateDictKey, d>> >> : d \in StateMappings}
\* what legacy_model.net.state_dict() can return
LegacyNetStates == {d \in StateMappings : Len(d) <= 1}
\* the key sets a UNet can expect
ExpectedKeySets == SUBSET {<<"a">>, NetPrefix \o <<"a">>}
\* sys.modules before the run: a submodule is imported after its parents
InitialModules ==
    {[n \in ModuleNames |-> IF n \in present THEN "real" ELSE "absent"] :
        present \in {{}, {pl_name}, {pl_name, utils_name}, ModuleNames}}

\* lines 36-37: the checkpoint is there
CheckpointPresent ==
    /\ pc = "start"
    /\ ckptOnDisk
    /\ pc' = "load"
    /\ UNCHANGED <<ckptOnDisk, sysModules, legacyImport, ckpt, state_dict, tentative, cleaned,
                   weightsFile, configFile, log, error, report>>
    /\ UNCHANGED loaderVars

\* lines 37-47: the checkpoint is missing and is downloaded; a failure is re-raised
Download ==
    /\ pc = "start"
    /\ ~ckptOnDisk
    /\ \E ok \in BOOLEAN :
          IF ok
          THEN /\ ckptOnDisk' = TRUE
               /\ pc' = "load"
               /\ error' = error
          ELSE /\ ckptOnDisk' = ckptOnDisk
               /\ pc' = "failed"
               /\ error' = Propagated("URLError")
    /\ UNCHANGED <<sysModules, legacyImport, ckpt, state_dict, tentative, cleaned,
                   weightsFile, configFile, log, report>>
    /\ UNCHANGED loaderVars

\* lines 51-53: torch.load with the defaults; an exception enters the handler
StrictLoad ==
    /\ pc = "load"
    /\ log' = Append(log, "load_strict")
    /\ \/ \E c \in Checkpoints : ckpt' = c /\ pc' = "extract"
       \/ ckpt' = ckpt /\ pc' = "retry"
    /\ UNCHANGED <<ckptOnDisk, sysModules, legacyImport, state_dict, tentative, cleaned,
                   weightsFile, configFile, error, report>>
    /\ UNCHANGED loaderVars

\* lines 55-73 without the `not in sys.modules` tests: every name is overwritten
RegisterStubsOverwrites ==
    /\ pc = "retry"
    /\ sysModules' =
          [n \in ModuleNames |->
              IF n = parsing_name THEN "stub with AttributeDict" ELSE "stub"]
    /\ log' = Append(log, "stubs")
    /\ pc' = "reload"
    /\ UNCHANGED <<ckptOnDisk, legacyImport, ckpt, state_dict, tentative,
                   cleaned, weightsFile, configFile, error, report>>
    /\ UNCHANGED loaderVars

\* lines 55-73: a stub for each name not already in sys.modules; the stub of
\* the parsing module carries the AttributeDict stand-in
RegisterStubs ==
    /\ pc = "retry"
    /\ sysModules' =
          [n \in ModuleNames |->
              IF sysModules[n] # "absent" THEN sysModules[n]
              ELSE IF n = parsing_name THEN "stub with AttributeDict"
              ELSE "stub"]
    /\ log' = Append(log, "stubs")
    /\ pc' = "reload"
    /\ UNCHANGED <<ckptOnDisk, legacyImport, ckpt, state_dict, tentative,
                   cleaned, weightsFile, configFile, error, report>>
    /\ UNCHANGED loaderVars

\* line 75: torch.load(..., weights_only=False); an exception propagates
PermissiveLoad ==
    /\ pc = "reload"
    /\ log' = Append(log, "load_permissive")
    /\ \/ \E c \in Checkpoints : ckpt' = c /\ pc' = "extract" /\ error' = error
       \/ ckpt' = ckpt /\ pc' = "failed" /\ error' = Propagated("UnpicklingError")
    /\ UNCHANGED <<ckptOnDisk, sysModules, legacyImport, state_dict, tentative, cleaned,
                   weightsFile, configFile, report>>
    /\ UNCHANGED loaderVars

\* line 78: state_dict = ckpt.get("state_dict", ckpt)
ExtractStateDict ==
    /\ pc = "extract"
    /\ state_dict' = DictGet(ckpt, StateDictKey, ckpt)
    /\ pc' = "clean3a"
    /\ UNCHANGED <<ckptOnDisk, sysModules, legacyImport, ckpt, tentative, cleaned,
                   weightsFile, configFile, log, error, report>>
    /\ UNCHANGED loaderVars

\* line 86 with the test of line 88 falling through to the legacy loader
Strategy3aSkips3b ==
    /\ pc = "clean3a"
    /\ cleaned' = strip_prefix(state_dict, NetPrefix)
    /\ log' = Append(log, "3a")
    /\ pc' = IF IsEmpty(cleaned') THEN "clean3c" ELSE "save"
    /\ UNCHANGED <<ckptOnDisk, sysModules, legacyImport, ckpt, state_dict,
                   tentative, weightsFile, configFile, error, report>>
    /\ UNCHANGED loaderVars

\* line 86 and the test of line 88
Strategy3a ==
    /\ pc = "clean3a"
    /\ cleaned' = strip_prefix(state_dict, NetPrefix)
    /\ log' = Append(log, "3a")
    /\ pc' = IF IsEmpty(cleaned') THEN "clean3b" ELSE "save"
    /\ UNCHANGED <<ckptOnDisk, sysModules, legacyImport, ckpt, state_dict, tentative,
                   weightsFile, configFile, error, report>>
    /\ UNCHANGED loaderVars

\* lines 88-96 and the test of line 98
Strategy3b ==
    /\ pc = "clean3b"
    /\ tentative' = Tentative(state_dict)
    /\ cleaned' = Strategy3bResult(state_dict)
    /\ log' = Append(log, "3b")
    /\ pc' = IF IsEmpty(cleaned') THEN "clean3c" ELSE "save"
    /\ UNCHANGED <<ckptOnDisk, sysModules, legacyImport, ckpt, state_dict,
                   weightsFile, configFile, error, report>>
    /\ UNCHANGED loaderVars

\* lines 98-107 with the failed import only reported: main() goes on to save
LegacyUnavailableContinues ==
    /\ pc = "clean3c"
    /\ legacyImport' = "ImportError"
    /\ log' = Append(log, "3c")
    /\ pc' = "save"
    /\ UNCHANGED <<ckptOnDisk, sysModules, ckpt, state_dict,
                   tentative, cleaned, weightsFile, configFile, error, report>>
    /\ UNCHANGED loaderVars

\* lines 98-107: smude.model.load_model cannot be imported
LegacyUnavailable ==
    /\ pc = "clean3c"
    /\ legacyImport' = "ImportError"
    /\ log' = Append(log, "3c")
    /\ error' = LegacyUnavailableError
    /\ pc' = "failed"
    /\ UNCHANGED <<ckptOnDisk, sysModules, ckpt, state_dict, tentative, cleaned,
                   weightsFile, configFile, report>>
    /\ UNCHANGED loaderVars

\* lines 98-109: the legacy loader reads the checkpoint, or raises
LegacyLoad ==
    /\ pc = "clean3c"
    /\ legacyImport' = "imported"
    /\ log' = Append(log, "3c")
    /\ \/ \E d \in LegacyNetStates :
             cleaned' = d /\ pc' = "save" /\ error' = error
       \/ cleaned' = cleaned /\ pc' = "failed"
          /\ error' = Propagated("LegacyLoaderError")
    /\ UNCHANGED <<ckptOnDisk, sysModules, ckpt, state_dict, tentative,
                   weightsFile, configFile, report>>
    /\ UNCHANGED loaderVars

\* lines 111-113: torch.save(cleaned, weights_path)
SaveWeights ==
    /\ pc = "save"
    /\ weightsFile' = File(cleaned)
    /\ log' = Append(log, "save_weights")
    /\ pc' = "save_config"
    /\ UNCHANGED <<ckptOnDisk, sysModules, legacyImport, ckpt, state_dict, tentative, cleaned,
                   configFile, error, report>>
    /\ UNCHANGED loaderVars

\* lines 116-124: torch.save(config, config_path)
SaveConfig ==
    /\ pc = "save_config"
    /\ configFile' = File(Config)
    /\ log' = Append(log, "save_config")
    /\ pc' = "verify"
    /\ UNCHANGED <<ckptOnDisk, sysModules, legacyImport, ckpt, state_dict, tentative, cleaned,
                   weightsFile, error, report>>
    /\ UNCHANGED loaderVars

\* module.load_state_dict(state, strict): the keys the module expects and does
\* not get, the keys it gets and does not expect; strict raises on either
MissingKeys(expected, state) == expected \ Keys(state)
UnexpectedKeys(expected, state) == Keys(state) \ expected
LoadRaises(expected, state, strict) ==
    strict /\ (MissingKeys(expected, state) # {} \/ UnexpectedKeys(expected, state) # {})

\* what lines 136-143 print
VerifyReport(expected, state) ==
    IF LoadRaises(expected, state, FALSE) THEN "skipped"
    ELSE IF MissingKeys(expected, state) # {} \/ UnexpectedKeys(expected, state) # {}
    THEN "warning"
    ELSE "loaded"

\* lines 128-149 without the try/except: an exception in verification propagates
VerifyUncaught ==
    /\ pc = "verify"
    /\ log' = Append(log, "verify")
    /\ \/ report' = "none" /\ error' = Propagated("ImportError") /\ pc' = "failed"
       \/ \E expected \in ExpectedKeySets :
             /\ report' = VerifyReport(expected, weightsFile.content)
             /\ error' = error
             /\ pc' = "done"
    /\ UNCHANGED <<ckptOnDisk, sysModules, legacyImport, ckpt, state_dict,
                   tentative, cleaned, weightsFile, configFile>>
    /\ UNCHANGED loaderVars

\* lines 128-149: the optional verification; every exception is caught
Verify ==
    /\ pc = "verify"
    /\ log' = Append(log, "verify")
    /\ \/ report' = "skipped"            \* import, construction or load raised
       \/ \E expected \in ExpectedKeySets :
             report' = VerifyReport(expected, weightsFile.content)
    /\ pc' = "done"
    /\ UNCHANGED <<ckptOnDisk, sysModules, legacyImport, ckpt, state_dict, tentative, cleaned,
                   weightsFile, configFile, error>>
    /\ UNCHANGED loaderVars

ExtractNext ==
    \/ CheckpointPresent
    \/ Download
    \/ StrictLoad
    \/ RegisterStubs
    \/ PermissiveLoad
    \/ ExtractStateDict
    \/ Strategy3a
    \/ Strategy3b
    \/ LegacyUnavailable
    \/ LegacyLoad
    \/ SaveWeights
    \/ SaveConfig
    \/ Verify

LoaderIdle ==
    /\ entry = "none"
    /\ lpc = "idle"
    /\ disk = {}
    /\ arg_weights = NoValue
    /\ arg_checkpoint = NoValue
    /\ weights_path = NoValue
    /\ checkpoint_path = NoValue
    /\ model = NoValue
    /\ source = NoValue
    /\ outcome = NoError
    /\ mismatch = FALSE
    /\ warned = FALSE

Init ==
    /\ pc = "start"
    /\ ckptOnDisk \in BOOLEAN
    /\ sysModules \in InitialModules
    /\ legacyImport = "not tried"
    /\ ckpt = NoValue
    /\ state_dict = NoValue
    /\ tentative = NoValue
    /\ cleaned = NoValue
    /\ weightsFile = NoFile
    /\ configFile = NoFile
    /\ log = <<>>
    /\ error = NoError
    /\ report = "none"
    /\ LoaderIdle

Next == ExtractNext

\* one run of scripts/extract_model_weights.py
Spec == Init /\ [][Next]_vars

(***************************************************************************)
(* smude/loader.py                                                         *)
(***************************************************************************)
None == "None"
DefaultWeights == "smude/model_weights.pth"
DefaultCheckpoint == "smude/model.ckpt"
DefaultConfigFile == "smude/model_config.pth"
CustomWeights == "custom/weights.pth"
CustomCheckpoint == "custom/legacy.ckpt"
Paths == {DefaultWeights, DefaultCheckpoint, DefaultConfigFile,
          CustomWeights, CustomCheckpoint}

\* the truth value of an Optional[str]: None and "" are false
Truthy(p) == p # None /\ p # ""

\* Path(p).exists()
Exists(p, files) == p \in files

\* find_model_artifacts that never reports the legacy checkpoint
find_model_artifacts_weights_only(files) ==
    <<IF Exists(DefaultWeights, files) THEN DefaultWeights ELSE None, None>>

\* find_model_artifacts(root)
find_model_artifacts(files) ==
    <<IF Exists(DefaultWeights, files) THEN DefaultWeights ELSE None,
      IF Exists(DefaultCheckpoint, files) THEN DefaultCheckpoint ELSE None>>

Returned == [type |-> "returned", msg |-> ""]
Passed == [type |-> "passed", msg |-> ""]
NoArtifactsError ==
    [type |-> "FileNotFoundError",
     msg |-> "No model artifacts found. Expected 'smude/model_weights.pth' or 'smude/model.ckpt'."]
LegacyLoaderError ==
    [type |-> "RuntimeError",
     msg |-> "Legacy checkpoint found but legacy Lightning loader is unavailable. Run scripts/extract_model_weights.py with the old environment first."]
StrictLoadError ==
    [type |-> "RuntimeError",
     msg |-> "Error(s) in loading state_dict: missing or unexpected key(s)"]

\* the arguments a caller can pass
WeightsArgs == {None, "", CustomWeights}
CheckpointArgs == {None, "", CustomCheckpoint}
\* the state mappings a weights file or a legacy network can hold
FileStates == {d \in StateMappings : Len(d) <= 1}

\* lines 54-57: no explicit path, so the defaults under smude/ are looked up
AutoDiscover ==
    /\ entry = "load_model_flexible"
    /\ lpc = "entry"
    /\ ~Truthy(weights_path) /\ ~Truthy(checkpoint_path)
    /\ weights_path' = find_model_artifacts(disk)[1]
    /\ checkpoint_path' = find_model_artifacts(disk)[2]
    /\ lpc' = "build"
    /\ UNCHANGED <<entry, disk, arg_weights, arg_checkpoint, model, source,
                   outcome, mismatch, warned>>
    /\ UNCHANGED extractVars

\* line 54: an explicit path was passed, the lookup is skipped
ExplicitPaths ==
    /\ entry = "load_model_flexible"
    /\ lpc = "entry"
    /\ ~(~Truthy(weights_path) /\ ~Truthy(checkpoint_path))
    /\ lpc' = "build"
    /\ UNCHANGED <<entry, disk, arg_weights, arg_checkpoint, weights_path,
                   checkpoint_path, model, source, outcome, mismatch, warned>>
    /\ UNCHANGED extractVars

\* line 59: model = load_unet(config)
LoadUnet ==
    /\ entry = "load_model_flexible"
    /\ lpc = "build"
    /\ model' \in ExpectedKeySets
    /\ lpc' = "dispatch"
    /\ UNCHANGED <<entry, disk, arg_weights, arg_checkpoint, weights_path,
                   checkpoint_path, source, outcome, mismatch, warned>>
    /\ UNCHANGED extractVars

\* the conditions of lines 61 and 73
WeightsResolve == Truthy(weights_path) /\ Exists(weights_path, disk)
CheckpointResolves == Truthy(checkpoint_path) /\ Exists(checkpoint_path, disk)

\* lines 61-71: the weights file is loaded with strict=False
LoadWeights ==
    /\ entry = "load_model_flexible"
    /\ lpc = "dispatch"
    /\ WeightsResolve
    /\ source' = weights_path
    /\ \E state \in FileStates :
          /\ mismatch' = (MissingKeys(model, state) # {} \/ UnexpectedKeys(model, state) # {})
          /\ outcome' = IF LoadRaises(model, state, FALSE) THEN StrictLoadError ELSE Returned
          /\ warned' = mismatch'
    /\ lpc' = "done"
    /\ UNCHANGED <<entry, disk, arg_weights, arg_checkpoint, weights_path,
                   checkpoint_path, model>>
    /\ UNCHANGED extractVars

\* lines 73-81: the checkpoint resolves and SegModel cannot be imported
LegacyImportFails ==
    /\ entry = "load_model_flexible"
    /\ lpc = "dispatch"
    /\ ~WeightsResolve
    /\ CheckpointResolves
    /\ source' = checkpoint_path
    /\ outcome' = LegacyLoaderError
    /\ lpc' = "done"
    /\ UNCHANGED <<entry, disk, arg_weights, arg_checkpoint, weights_path,
                   checkpoint_path, model, mismatch, warned>>
    /\ UNCHANGED extractVars

\* lines 73-84: model.load_state_dict(legacy.net.state_dict()), strict by default
LoadLegacyCheckpoint ==
    /\ entry = "load_model_flexible"
    /\ lpc = "dispatch"
    /\ ~WeightsResolve
    /\ CheckpointResolves
    /\ source' = checkpoint_path
    /\ \E state \in FileStates :
          /\ mismatch' = (MissingKeys(model, state) # {} \/ UnexpectedKeys(model, state) # {})
          /\ outcome' = IF LoadRaises(model, state, TRUE) THEN StrictLoadError ELSE Returned
    /\ lpc' = "done"
    /\ UNCHANGED <<entry, disk, arg_weights, arg_checkpoint, weights_path,
                   checkpoint_path, model, warned>>
    /\ UNCHANGED extractVars

\* lines 86-88: neither branch was taken
NoArtifacts ==
    /\ entry = "load_model_flexible"
    /\ lpc = "dispatch"
    /\ ~WeightsResolve
    /\ ~CheckpointResolves
    /\ outcome' = NoArtifactsError
    /\ lpc' = "done"
    /\ UNCHANGED <<entry, disk, arg_weights, arg_checkpoint, weights_path,
                   checkpoint_path, model, source, mismatch, warned>>
    /\ UNCHANGED extractVars

(***************************************************************************)
(* scripts/smoke_loader_only.py and tests/test_loader_forward.py           *)
(***************************************************************************)
AssertionFailed == [type |-> "AssertionError", msg |-> ""]

\* smoke_loader_only.main(): the asserts of lines 33-34, the strict=False load
\* with its warning, the forward pass and the asserts on the output shape
SmokeMain ==
    /\ entry = "smoke_main"
    /\ lpc = "entry"
    /\ IF ~(Exists(DefaultWeights, disk) /\ Exists(DefaultConfigFile, disk))
       THEN /\ outcome' = AssertionFailed
            /\ UNCHANGED <<model, source, mismatch, warned>>
       ELSE /\ model' \in ExpectedKeySets
            /\ source' = DefaultWeights
            /\ \E state \in FileStates, shapeOk \in BOOLEAN :
                  /\ mismatch' = (MissingKeys(model', state) # {} \/ UnexpectedKeys(model', state) # {})
                  /\ warned' = mismatch'
                  /\ outcome' = IF LoadRaises(model', state, FALSE) THEN StrictLoadError
                                ELSE IF shapeOk THEN Passed ELSE AssertionFailed
    /\ lpc' = "done"
    /\ UNCHANGED <<entry, disk, arg_weights, arg_checkpoint, weights_path,
                   checkpoint_path>>
    /\ UNCHANGED extractVars

\* test_forward_shape(): the same load with the returned key lists dropped
TestForwardShape ==
    /\ entry = "test_forward_shape"
    /\ lpc = "entry"
    /\ IF ~(Exists(DefaultWeights, disk) /\ Exists(DefaultConfigFile, disk))
       THEN /\ outcome' = AssertionFailed
            /\ UNCHANGED <<model, source, mismatch>>
       ELSE /\ model' \in ExpectedKeySets
            /\ source' = DefaultWeights
            /\ \E state \in FileStates, shapeOk \in BOOLEAN :
                  /\ mismatch' = (MissingKeys(model', state) # {} \/ UnexpectedKeys(model', state) # {})
                  /\ outcome' = IF LoadRaises(model', state, FALSE) THEN StrictLoadError
                                ELSE IF shapeOk THEN Passed ELSE AssertionFailed
    /\ lpc' = "done"
    /\ UNCHANGED <<entry, disk, arg_weights, arg_checkpoint, weights_path,
                   checkpoint_path, warned>>
    /\ UNCHANGED extractVars

LoaderNext ==
    \/ AutoDiscover
    \/ ExplicitPaths
    \/ LoadUnet
    \/ LoadWeights
    \/ LegacyImportFails
    \/ LoadLegacyCheckpoint
    \/ NoArtifacts
    \/ SmokeMain
    \/ TestForwardShape

ExtractIdle ==
    /\ pc = "idle"
    /\ ckptOnDisk = FALSE
    /\ sysModules = [n \in ModuleNames |-> "absent"]
    /\ legacyImport = "not tried"
    /\ ckpt = NoValue
    /\ state_dict = NoValue
    /\ tentative = NoValue
    /\ cleaned = NoValue
    /\ weightsFile = NoFile
    /\ configFile = NoFile
    /\ log = <<>>
    /\ error = NoError
    /\ report = "none"

LoaderInit ==
    /\ ExtractIdle
    /\ entry \in {"load_model_flexible", "smoke_main", "test_forward_shape"}
    /\ lpc = "entry"
    /\ disk \in SUBSET Paths
    /\ arg_weights \in IF entry = "load_model_flexible" THEN WeightsArgs ELSE {NoValue}
    /\ arg_checkpoint \in IF entry = "load_model_flexible" THEN CheckpointArgs ELSE {NoValue}
    /\ weights_path = arg_weights
    /\ checkpoint_path = arg_checkpoint
    /\ model = NoValue
    /\ source = NoValue
    /\ outcome = NoError
    /\ mismatch = FALSE
    /\ warned = FALSE

\* one call of load_model_flexible, one run of the smoke script or of the test
SpecLoader == LoaderInit /\ [][LoaderNext]_vars

(***************************************************************************)
(* Properties of scripts/extract_model_weights.py, checked under Spec      *)
(***************************************************************************)
Logged(e) == \E i \in 1..Len(log) : log[i] = e
Before(e, f) == \E i, j \in 1..Len(log) : i < j /\ log[i] = e /\ log[j] = f
Strip(k) == SliceFrom(k, Len(NetPrefix))
Prefixed(d) == {k \in Keys(d) : StartsWith(k, NetPrefix)}
Dotted(d) == {k \in Keys(d) : HasDot(k)}
\* `cleaned` holds the result of strategy 3a
Holds3a == Logged("3a") /\ ~Logged("3b")
\* `cleaned` holds the result of strategy 3b
Holds3b == Logged("3b") /\ ~Logged("3c")
\* the key cleaning has ended, with a mapping or with an exception
CleaningOver == Logged("3a") /\ pc \notin {"clean3b", "clean3c"}

\* C1, parts that hold: when some key of the state mapping starts with "net.",
\* strategy 3a binds each such key, with its leading "net." removed, to the
\* value of that key, and the cleaned mapping has no other entry.
StripBindsEachPrefixedKey ==
    \A k \in Prefixed(state_dict) :
        /\ Strip(k) \in Keys(cleaned)
        /\ Lookup(cleaned, Strip(k)) = Lookup(state_dict, k)
StripAddsNothingElse ==
    \A c \in Keys(cleaned) : \E k \in Prefixed(state_dict) : c = Strip(k)

\* C1 as stated: in addition, every key that does not start with "net." has
\* no entry in the cleaned mapping.
C1_AsStated ==
    (Holds3a /\ Prefixed(state_dict) # {}) =>
        /\ StripBindsEachPrefixedKey
        /\ \A k \in Keys(state_dict) \ Prefixed(state_dict) : k \notin Keys(cleaned)
        /\ StripAddsNothingElse

\* C1 amended: when some key starts with "net.", the cleaned mapping of
\* strategy 3a consists exactly of the entries (k without its leading "net.",
\* value of k) for the keys k that start with "net."; a key that does not start
\* with "net." contributes no entry, and is a key of the cleaned mapping only
\* when it equals some prefixed key with the prefix removed.
C1_StripPrefixExact ==
    (Holds3a /\ Prefixed(state_dict) # {}) =>
        /\ StripBindsEachPrefixedKey
        /\ StripAddsNothingElse
        /\ \A k \in Keys(state_dict) \ Prefixed(state_dict) :
              k \in Keys(cleaned) => NetPrefix \o k \in Keys(state_dict)

\* strategy 3a produced the mapping, from "net.a" next to an unprefixed "a"
C1_Witness ==
    /\ Holds3a
    /\ pc = "save"
    /\ NetPrefix \o <<"a">> \in Keys(state_dict)
    /\ <<"a">> \in Keys(state_dict)

\* C2 as stated: no key persisted to model_weights.pth starts with "net.".
C2_AsStated ==
    weightsFile.exists =>
        \A k \in Keys(weightsFile.content) : ~StartsWith(k, NetPrefix)

\* C2 amended: a key persisted by strategy 3a or 3b starts with "net." only
\* when it is what is left of an original key that carried the prefix twice:
\* "net.net.<rest>" under 3a, "<segment>.net.net.<rest>" under 3b.  (The keys
\* of strategy 3c are those the legacy loader returns.)
C2_OnlyRepeatedPrefixSurvives ==
    (weightsFile.exists /\ ~Logged("3c")) =>
        \A c \in Keys(weightsFile.content) :
            StartsWith(c, NetPrefix) =>
                \/ /\ Holds3a
                   /\ NetPrefix \o c \in Keys(state_dict)
                \/ /\ Holds3b
                   /\ \E k \in Dotted(state_dict) :
                         AfterFirstDot(k) = NetPrefix \o c

\* a persisted key that still starts with "net."
C2_Witness ==
    /\ weightsFile.exists
    /\ ~Logged("3c")
    /\ \E c \in Keys(weightsFile.content) : StartsWith(c, NetPrefix)

\* the strategies logged, in the order they ran
StrategiesTried == SelectSeq(log, LAMBDA e : e \in {"3a", "3b", "3c"})

\* C3: the strategies run in the order 3a, 3b, 3c; 3b runs exactly when 3a
\* yields nothing (no key starts with "net."); 3c runs exactly when 3a and 3b
\* both yield nothing (no key starts with "net." and no key has a separator),
\* and then after 3b.  So with no "net."-prefixed key and some key holding a
\* separator, 3b runs and 3c does not.
C3_FallbackOrder ==
    /\ StrategiesTried \in {<<>>, <<"3a">>, <<"3a", "3b">>, <<"3a", "3b", "3c">>}
    /\ Logged("3b") => Prefixed(state_dict) = {}
    /\ Logged("3c") => Prefixed(state_dict) = {} /\ Dotted(state_dict) = {}
    /\ CleaningOver =>
          /\ Logged("3b") <=> Prefixed(state_dict) = {}
          /\ Logged("3c") <=> (Prefixed(state_dict) = {} /\ Dotted(state_dict) = {})
          /\ (Prefixed(state_dict) = {} /\ Dotted(state_dict) # {}) =>
                (StrategiesTried = <<"3a", "3b">> /\ pc # "failed")

\* 3b settled a mapping without "net."-prefixed keys, and 3c was not tried
C3_Witness ==
    /\ CleaningOver
    /\ pc = "save"
    /\ StrategiesTried = <<"3a", "3b">>
    /\ Dotted(state_dict) # {}

\* what strategy 3b makes of an original key holding a separator
SecondStrip == \E k \in Dotted(state_dict) : StartsWith(AfterFirstDot(k), NetPrefix)
Kept3b(k) == ~SecondStrip \/ StartsWith(AfterFirstDot(k), NetPrefix)
Final3b(k) == IF SecondStrip THEN Strip(AfterFirstDot(k)) ELSE AfterFirstDot(k)
KeySet3b == {Final3b(k) : k \in {x \in Dotted(state_dict) : Kept3b(x)}}
\* the last item of the state mapping that strategy 3b turns into key c
LastOrigin(c) ==
    CHOOSE i \in 1..Len(state_dict) :
        /\ HasDot(state_dict[i][1]) /\ Kept3b(state_dict[i][1])
        /\ Final3b(state_dict[i][1]) = c
        /\ \A j \in (i + 1)..Len(state_dict) :
              ~(/\ HasDot(state_dict[j][1]) /\ Kept3b(state_dict[j][1])
                /\ Final3b(state_dict[j][1]) = c)

\* C4 as stated: the result of 3b has the keys described, and each original
\* key that is kept finds its value under the key it was shortened to.
C4_AsStated ==
    Holds3b =>
        /\ Keys(cleaned) = KeySet3b
        /\ \A k \in Dotted(state_dict) :
              Kept3b(k) => Lookup(cleaned, Final3b(k)) = Lookup(state_dict, k)

\* C4 amended: the keys of the result are as stated (first segment dropped,
\* keys without "." dropped, a second strip of "net." when some shortened key
\* has it, the others then discarded); each resulting key is bound to the
\* value of the last original key, in the mapping's order, that is shortened
\* to it, which is the value of "the" original key whenever no two original
\* keys are shortened to the same key.  tentative holds the once-shortened keys.
C4_ShortenThenStrip ==
    Holds3b =>
        /\ Keys(tentative) = {AfterFirstDot(k) : k \in Dotted(state_dict)}
        /\ Keys(cleaned) = KeySet3b
        /\ \A c \in Keys(cleaned) :
              Lookup(cleaned, c) = state_dict[LastOrigin(c)][2]
        /\ \A k \in Dotted(state_dict) :
              (Kept3b(k) /\ \A x \in Dotted(state_dict) :
                               (Kept3b(x) /\ Final3b(x) = Final3b(k)) => x = k)
                  => Lookup(cleaned, Final3b(k)) = Lookup(state_dict, k)

\* 3b shortened "m.net.a" and "w.net.a" to the same key "a"
C4_Witness ==
    /\ Holds3b
    /\ pc = "save"
    /\ Keys(state_dict) = {<<"m", ".">> \o NetPrefix \o <<"a">>,
                           <<"w", ".">> \o NetPrefix \o <<"a">>}
    /\ state_dict[1][2] # state_dict[2][2]
    /\ Keys(cleaned) = {<<"a">>}

\* C8: once key cleaning is over, model_weights.pth is written, then
\* model_config.pth, then verification is attempted; whatever verification
\* meets, main() ends without error and both artifacts stay as written.
C8_VerifyAfterSaveNeverFatal ==
    /\ pc \in {"save_config", "verify", "done"} =>
          /\ weightsFile = File(cleaned)
          /\ Logged("save_weights")
    /\ pc \in {"verify", "done"} =>
          /\ configFile = File(Config)
          /\ Before("save_weights", "save_config")
    /\ Logged("verify") =>
          /\ Before("save_config", "verify")
          /\ pc = "done"
          /\ report \in {"skipped", "warning", "loaded"}
    /\ (Logged("save_weights") \/ pc = "save") => (pc # "failed" /\ error = NoError)
    /\ pc = "save" => (~weightsFile.exists /\ ~configFile.exists)
    /\ pc = "save_config" => ~configFile.exists

\* verification met mismatching keys and main() still ended normally
C8_Witness ==
    /\ pc = "done"
    /\ report = "warning"
    /\ weightsFile.exists /\ configFile.exists

\* C9: when 3a and 3b both yield nothing and the legacy loader cannot be
\* imported, main() fails with the RuntimeError that names the remediation,
\* before the persist step: neither artifact is written.
C9_ExhaustionIsFatal ==
    (/\ CleaningOver
     /\ Prefixed(state_dict) = {} /\ Dotted(state_dict) = {}
     /\ legacyImport = "ImportError") =>
        /\ pc = "failed"
        /\ error = LegacyUnavailableError
        /\ StrategiesTried = <<"3a", "3b", "3c">>
        /\ ~Logged("save_weights") /\ ~Logged("save_config")
        /\ ~weightsFile.exists /\ ~configFile.exists

\* the chain was exhausted on a mapping with the single key "a"
C9_Witness ==
    /\ pc = "failed"
    /\ Logged("3c")
    /\ legacyImport = "ImportError"
    /\ Keys(state_dict) = {<<"a">>}

\* the torch.load calls logged, in the order they ran
LoadsTried == SelectSeq(log, LAMBDA e : e \in {"load_strict", "load_permissive"})
StubValues == {"stub", "stub with AttributeDict"}

C10_State ==
    /\ LoadsTried \in {<<>>, <<"load_strict">>, <<"load_strict", "load_permissive">>}
    /\ Logged("stubs") => Before("load_strict", "stubs")
    /\ Logged("load_permissive") => Before("stubs", "load_permissive")
    /\ ~Logged("stubs") =>
          /\ \A n \in ModuleNames : sysModules[n] \notin StubValues
          /\ ~Logged("load_permissive")
    /\ Logged("stubs") =>
          /\ \A n \in ModuleNames : sysModules[n] # "absent"
          /\ sysModules[pl_name] \in {"real", "stub"}
          /\ sysModules[utils_name] \in {"real", "stub"}
          /\ sysModules[parsing_name] \in {"real", "stub with AttributeDict"}
    /\ pc \in {"extract", "clean3a"} /\ LoadsTried = <<"load_strict">> =>
          ~Logged("stubs")
    /\ (pc = "failed" /\ Len(log) > 0 /\ log[Len(log)] = "load_permissive") =>
          /\ error = Propagated("UnpicklingError")
          /\ ~weightsFile.exists /\ ~configFile.exists

\* C10: torch.load runs at most twice, the default load first; the permissive
\* load runs only after the default load raised and the three placeholder
\* modules are registered, each only if its name was not in sys.modules (a
\* module already there is never replaced), the parsing one with the
\* AttributeDict stand-in; a first load that succeeds registers nothing and is
\* not followed by a second; a second load that raises propagates, with no
\* third load and no artifact written.
C10_TwoLoadsAtMost ==
    /\ []C10_State
    /\ [][\A n \in ModuleNames :
             /\ sysModules[n] # "absent" => sysModules'[n] = sysModules[n]
             /\ sysModules'[n] # sysModules[n] => pc = "retry"]_vars

\* the permissive load succeeded with pytorch_lightning present and the
\* parsing module stubbed
C10_Witness ==
    /\ pc = "extract"
    /\ LoadsTried = <<"load_strict", "load_permissive">>
    /\ sysModules[pl_name] = "real"
    /\ sysModules[parsing_name] = "stub with AttributeDict"

(***************************************************************************)
(* Properties of smude/loader.py and of the harnesses, under SpecLoader    *)
(***************************************************************************)
Resolves(p) == Truthy(p) /\ p \in disk
NoExplicitPath == ~Truthy(arg_weights) /\ ~Truthy(arg_checkpoint)
LoaderDone == entry = "load_model_flexible" /\ lpc = "done"

\* the first of: explicit weights, explicit checkpoint, default weights,
\* default checkpoint, that names an existing file
HighestSource ==
    IF Resolves(arg_weights) THEN arg_weights
    ELSE IF Resolves(arg_checkpoint) THEN arg_checkpoint
    ELSE IF Resolves(DefaultWeights) THEN DefaultWeights
    ELSE IF Resolves(DefaultCheckpoint) THEN DefaultCheckpoint
    ELSE None

\* C5 as stated: for every combination of arguments and files, the parameters
\* are taken from the highest-precedence source that names an existing file;
\* with no explicit path and both defaults present, from the weights file.
C5_AsStated ==
    LoaderDone =>
        /\ HighestSource # None => source = HighestSource
        /\ (NoExplicitPath /\ Resolves(DefaultWeights) /\ Resolves(DefaultCheckpoint))
              => (source = DefaultWeights /\ outcome = Returned)

\* the weights source and the checkpoint source of a call: the explicit paths,
\* or the defaults looked up when no explicit path is passed
WeightsSource ==
    IF NoExplicitPath
    THEN (IF DefaultWeights \in disk THEN DefaultWeights ELSE None)
    ELSE arg_weights
CheckpointSource ==
    IF NoExplicitPath
    THEN (IF DefaultCheckpoint \in disk THEN DefaultCheckpoint ELSE None)
    ELSE arg_checkpoint

C7_AsStated ==
    (lpc = "done" /\ mismatch) => outcome # StrictLoadError

====
